---- MODULE Spec2Model ----
(***************************************************************************)
(* A model of KontomanagerClient (src/src/mcp_server_kontomanager/         *)
(* client.py): one shared client object, used by the tool handlers of      *)
(* src/src/server.py, each of which is a coroutine that suspends only at   *)
(* its network awaits.  A step of a caller is the code that runs between   *)
(* two awaits: it consumes the response of the pending request and runs    *)
(* up to (and including) the next request, or to the return / raise.       *)
(* The portal is the environment: Server answers a pending request.        *)
(***************************************************************************)
EXTENDS Integers, Sequences, FiniteSets, TLC

(* ------------------------------ bounds -------------------------------- *)

\* CSRF tokens the portal issues in one run (the issue counter is capped).
MaxTokens == 3

\* Rows of a list page (bills, call history, switchable phone numbers).
MaxRows == 2

\* Cards of an overview page.
MaxCards == 2

\* Characters of a phone number text.
MaxLen == 4

(* --------------------------- value universe --------------------------- *)

\* Python's None, and an absent node / attribute of a page.
None == "None"

\* Optional[int] = None for delay_seconds.
NoneInt == -1

Procs == {"p1", "p2"}

\* Python truthiness of an Optional[str].
Truthy(s) == s # None /\ s # ""

\* parsel's SelectorList.get(default): the first match, or the default.
Get(match, default) == IF match = None THEN default ELSE match

\* dict item assignment d[k] = v.
Put(d, k, v) == [x \in DOMAIN d \cup {k} |-> IF x = k THEN v ELSE d[x]]

EmptyDict == [x \in {} |-> ""]

\* The strings of the pages' delay selector that str.isdigit() accepts, with int() of each.
DigitStrings == {"5", "05", "10", "25", "30"}

IsDigit(s) == s \in DigitStrings

IntOf(s) ==
  CASE s = "5" -> 5 [] s = "05" -> 5 [] s = "10" -> 10 [] s = "25" -> 25 [] s = "30" -> 30

\* The CSRF token the portal embeds in the n-th token-bearing page of the run.
Tok(n) == "t" \o ToString(n)

(* ------------------------------ state --------------------------------- *)

VARIABLES
  logged_in,         \* KontomanagerClient._logged_in
  pc,                \* per caller: the await it is suspended at, or "idle"
  call,              \* per caller: the operation in progress (or last finished) and its arguments
  net,               \* per caller: the request in flight or its response
  locals,            \* per caller: the locals `token`, `current_settings` and `payload`
                     \*             of the mutating operation in progress
  result,            \* per caller: what the last finished call returned or raised
  issued,            \* portal: number of CSRF tokens issued so far
  trace,             \* history: the requests the current (or last) call has issued
  start_authed,      \* history: _logged_in when the current (or last) call started
  issued_to,         \* history: the caller the newest token was issued to
  seen,              \* history, per caller and call: the token of the page of its last
                     \*   GET, the raw flag selectors of the page it parsed for settings,
                     \*   the markers of the login response it read, and the bill
                     \*   list get_bill got from list_bills
  posted             \* portal: the call-forwarding form it received last (empty: none yet)

vars == <<logged_in, pc, call, net, locals, result, issued, trace, start_authed,
          issued_to, seen, posted>>

NoMsg == [kind |-> "none"]

NoCall == [op |-> "none"]

NoResult == [kind |-> "none"]

NoSeen == [token |-> None, btel |-> None, voicemail |-> None, login |-> {"unread"},
           bills |-> [read |-> FALSE, list |-> <<>>]]

NoSettings == [rules |-> <<>>, editable_on_phone |-> FALSE,
               voicemail_play_cli_disable |-> FALSE]

NoLocals == [token |-> None, current_settings |-> NoSettings, payload |-> [x \in {} |-> ""]]

Req(method, url, data) == [kind |-> "req", method |-> method, url |-> url, data |-> data]

ClientError == "KontomanagerClientError"

(* ---------------------- call forwarding: parsing ---------------------- *)

rule_ids == <<"alle", "nann", "wtel", "nerr">>

Conds == {rule_ids[i] : i \in 1..Len(rule_ids)}

\* One rule of get_call_forwarding_settings, read from page pg for condition rid.
ParseRule(pg, rid) ==
  LET sel    == pg.akt[rid]
      target == IF ~Truthy(sel) THEN Get(pg.akt_attr[rid], "d") ELSE sel
      number == IF target = "a" THEN pg.rn[rid] ELSE None
      sek    == IF ~Truthy(pg.sek) THEN Get(pg.sek_attr, "25") ELSE pg.sek
      delay  == IF rid = "nann"
                THEN (IF Truthy(sek) /\ IsDigit(sek) THEN IntOf(sek) ELSE NoneInt)
                ELSE NoneInt
  IN  [condition |-> rid, target |-> target, target_number |-> number,
       delay_seconds |-> delay]

\* editable_on_phone: 'a' means enabled.
EditableOnPhone(pg) == Get(pg.btel, "d") = "a"

\* voicemail_play_cli_disable: 'd' means disabled is true.
VoicemailPlayCliDisable(pg) == Get(pg.voicemail, "d") = "d"

\* The CallForwardingSettings get_call_forwarding_settings builds from page pg.
ParseSettings(pg) ==
  [rules |-> [i \in 1..Len(rule_ids) |-> ParseRule(pg, rule_ids[i])],
   editable_on_phone |-> EditableOnPhone(pg),
   voicemail_play_cli_disable |-> VoicemailPlayCliDisable(pg)]

(* ------------------ call forwarding: the form payload ----------------- *)

\* Mutant: the requested rule is emitted for every condition.
RuleToApplyAlways(rule, rule_to_set) == rule_to_set

\* Mutant: the requested rule never replaces the current one.
RuleToApplyNever(rule, rule_to_set) == rule

\* The rule emitted in place of the current rule `rule`.
RuleToApply(rule, rule_to_set) ==
  IF rule.condition = rule_to_set.condition THEN rule_to_set ELSE rule

\* One pass of the loop body: the fields of one rule are put into the payload.
EmitRule(pl, r) ==
  LET p1 == Put(pl, r.condition \o "_akt", r.target)
      p2 == IF Truthy(r.target_number) THEN Put(p1, r.condition \o "_rn", r.target_number)
            ELSE p1
  IN  IF r.condition = "nann" /\ r.delay_seconds # NoneInt
      THEN Put(p2, "nann_sek", ToString(r.delay_seconds))
      ELSE p2

RECURSIVE EmitRules(_, _, _, _)
EmitRules(pl, rules, rule_to_set, i) ==
  IF i > Len(rules) THEN pl
  ELSE EmitRules(EmitRule(pl, RuleToApply(rules[i], rule_to_set)), rules, rule_to_set, i + 1)

\* The value submitted for btel_akt.
EmitEditable(settings) == IF settings.editable_on_phone THEN "a" ELSE "d"

\* The value submitted for voicemail_play_cli_disable.
EmitVoicemail(settings) == IF settings.voicemail_play_cli_disable THEN "a" ELSE "d"

\* The payload set_call_forwarding_rule submits.
BuildPayload(settings, rule_to_set, tok) ==
  LET p0 == [dosubmit |-> "1", token |-> tok]
      p1 == EmitRules(p0, settings.rules, rule_to_set, 1)
      p2 == Put(p1, "btel_akt", EmitEditable(settings))
  IN  Put(p2, "voicemail_play_cli_disable", EmitVoicemail(settings))

\* Mutant: only an absent token input counts as missing.
TokenMissingNoneOnly(tok) == tok = None

\* `if not token`: the page has no token input, or an empty one.
TokenMissing(tok) == ~Truthy(tok)

(* ------------------------- inputs of the model ------------------------ *)

Number1 == "+436601234567"

Number2 == "+436769999999"

\* The rules server.set_call_forwarding_rule can build: condition and target are
\* Literal-typed, and target 'a' needs a target number.
WellFormedRule(r) == r.target = "a" => Truthy(r.target_number)

AllRules ==
  {r \in [condition : Conds, target : {"d", "b", "a"},
          target_number : {None, "", Number2}, delay_seconds : {NoneInt, 10}] :
     WellFormedRule(r)}

\* The rules passed where the pages vary: per condition, a deactivation that
\* still names a number and a delay, a voicemail target with an empty number,
\* and a forwarding with and without a delay.
FormRules ==
  {r \in AllRules :
     \/ r.target = "d" /\ r.target_number = Number2 /\ r.delay_seconds = 10
     \/ r.target = "b" /\ r.target_number = "" /\ r.delay_seconds = NoneInt
     \/ r.target = "a"}

\* The rules passed where the callers vary.
FewRules ==
  {r \in AllRules : /\ r.condition \in {"alle", "nann"}
                    /\ r.target = "a"
                    /\ r.delay_seconds = (IF r.condition = "nann" THEN 10 ELSE NoneInt)}

\* A call-forwarding page, without its token input.
MkPage(akt, rn, sek, btel, voicemail) ==
  [akt |-> akt, akt_attr |-> [c \in Conds |-> None], rn |-> rn, sek |-> sek,
   sek_attr |-> None, btel |-> btel, voicemail |-> voicemail]

\* Pages whose rule selectors vary.
FormPages ==
  {MkPage(akt, rn, sek, "a", "d") :
     akt \in [Conds -> {None, "d", "a"}], rn \in [Conds -> {None, "", Number1}],
     sek \in {None, "05", "x"}}

\* Pages whose flag selectors vary.
FlagPages ==
  {MkPage(akt, [c \in Conds |-> Number1], "05", btel, voicemail) :
     akt \in {[c \in Conds |-> "d"], [c \in Conds |-> "a"]},
     btel \in {None, "a", "d"}, voicemail \in {None, "a", "d"}}

\* The pages the portal shows where the callers vary.
FewPages == {pg \in FlagPages : pg.btel = "a" /\ pg.voicemail = "d"}

SettingNames == {"roaming_barred", "data-barred"}

\* setting_name.replace('_', '-') on the names above.
Kebab(name) == IF name = "roaming_barred" THEN "roaming-barred" ELSE name

\* The bodies the portal answers a SIM-setting POST with.
SetResponses == {"OK", " ok ", "Fehler"}

\* response.text.strip().upper() on the bodies above.
StripUpper(text) == IF text = " ok " THEN "OK" ELSE text

\* The body of a login response: the login form, the invalid-credentials text, the alert.
LoginBodies == [form : BOOLEAN, invalid_text : BOOLEAN, alert : {None, "Gesperrt"}]

\* The markers of the response to a call-forwarding POST.
PostBodies == [fehler : BOOLEAN, error : BOOLEAN]

Outcomes == {"ok", "status", "transport"}

(* ------------------------- steps of a caller -------------------------- *)

\* The caller issues a request and suspends at `label`, its locals being loc.
Await(p, tr, label, method, url, data, loc) ==
  /\ pc' = [pc EXCEPT ![p] = label]
  /\ net' = [net EXCEPT ![p] = Req(method, url, data)]
  /\ trace' = [trace EXCEPT ![p] = Append(tr, <<method, url>>)]
  /\ result' = [result EXCEPT ![p] = NoResult]
  /\ locals' = [locals EXCEPT ![p] = loc]

\* The call ends: it returns a value or raises, and its locals are gone.
Done(p, tr, res) ==
  /\ pc' = [pc EXCEPT ![p] = "idle"]
  /\ net' = [net EXCEPT ![p] = NoMsg]
  /\ trace' = [trace EXCEPT ![p] = tr]
  /\ result' = [result EXCEPT ![p] = res]
  /\ locals' = [locals EXCEPT ![p] = NoLocals]

Return(p, value) == Done(p, trace[p], [kind |-> "return", value |-> value])

Raised(exc, cause, msg) == [kind |-> "raise", exc |-> exc, cause |-> cause, msg |-> msg]

Raise(p, exc, cause, msg) == Done(p, trace[p], Raised(exc, cause, msg))

\* A failed request of an operation that has no except clause: raise_for_status()
\* raises httpx.HTTPStatusError, the request itself httpx.RequestError.
Unwrapped(outcome) == IF outcome = "status" THEN "HTTPStatusError" ELSE "RequestError"

RaiseUnwrapped(p) == Raise(p, Unwrapped(net[p].outcome), net[p].outcome, "")

Answered(p, label) == pc[p] = label /\ net[p].kind = "resp"

\* Mutant: _ensure_logged_in never logs in.
NeedsLoginNever == FALSE

\* Mutant: _ensure_logged_in logs in on every call.
NeedsLoginAlways == TRUE

\* _ensure_logged_in: whether login() is called.
NeedsLogin == ~logged_in

\* The first page request of each operation.
FirstStep(c) ==
  CASE c.op = "get_account_usage" -> <<"usage", "GET", "kundendaten.php">>
    [] c.op = "get_phone_numbers" -> <<"numbers", "GET", "kundendaten.php">>
    [] c.op = "switch_active_phone_number" -> <<"switch", "GET", "kundendaten.php">>
    [] c.op = "list_bills" -> <<"bills", "GET", "rechnungen.php">>
    [] c.op = "get_bill" -> <<"bill_list", "GET", "rechnungen.php">>
    [] c.op = "list_call_history" -> <<"history", "GET", "gespraeche.php">>
    [] c.op = "get_sim_settings" -> <<"sim_get", "POST", "einstellungen_sim_getdata.php">>
    [] c.op = "set_sim_setting" -> <<"sim_token", "GET", "einstellungen_sim.php">>
    [] c.op = "get_call_forwarding_settings" ->
         <<"cf_get", "GET", "einstellungen_rufumleitung.php">>
    [] c.op = "set_call_forwarding_rule" ->
         <<"cf_read", "GET", "einstellungen_rufumleitung.php">>

FirstData(c) ==
  IF c.op = "switch_active_phone_number"
  THEN [groupaction |-> "change_subscriber", subscriber |-> c.subscriber_id]
  ELSE EmptyDict

\* The operation proper starts: the code after its _ensure_logged_in, up to its
\* first request.  (The _ensure_logged_in of the list_bills inside get_bill and of
\* the get_call_forwarding_settings inside set_call_forwarding_rule runs in the
\* same step, after the caller's own: it finds the flag set.)
Begin(p, tr, c) ==
  Await(p, tr, FirstStep(c)[1], FirstStep(c)[2], FirstStep(c)[3], FirstData(c), NoLocals)

Credentials == [login_rufnummer |-> "user", login_passwort |-> "secret"]

\* login() up to its warm-up GET.
StartLogin(p, tr) == Await(p, tr, "login_get", "GET", "index.php", EmptyDict, NoLocals)

\* Mutant: any document type is let through.
ValidBillTypeAny(t) == TRUE

\* get_bill's check of bill_type.lower().
ValidBillType(t) == t \in {"bill", "egn", "BILL"}

portal == <<issued, issued_to, posted>>

\* A tool handler calls the client: the code up to the first await.
Call(p, calls) ==
  /\ pc[p] = "idle"
  /\ \E c \in calls :
       /\ call' = [call EXCEPT ![p] = c]
       /\ start_authed' = [start_authed EXCEPT ![p] = logged_in]
       /\ seen' = [seen EXCEPT ![p] = NoSeen]
       /\ IF c.op = "get_bill" /\ ~ValidBillType(c.bill_type)
          THEN Done(p, <<>>, Raised(ClientError, "bill_type", "Invalid bill_type"))
          ELSE IF c.op = "login" \/ NeedsLogin
               THEN StartLogin(p, <<>>)
               ELSE Begin(p, <<>>, c)
       /\ UNCHANGED <<logged_in, portal>>

TokenPages == {"einstellungen_sim.php", "einstellungen_rufumleitung.php"}

\* The markup of a token-bearing page: no token input, an empty one, or a fresh token.
TokenChoices(req, outcome) ==
  IF outcome = "ok" /\ req.method = "GET" /\ req.url \in TokenPages
  THEN {None, ""} \cup (IF issued < MaxTokens THEN {Tok(issued + 1)} ELSE {})
  ELSE {None}

\* The portal answers the request of p (or the request fails on the way).
Server(p, outcomes) ==
  /\ net[p].kind = "req"
  /\ \E outcome \in outcomes : \E tok \in TokenChoices(net[p], outcome) :
       /\ net' = [net EXCEPT ![p] = [kind |-> "resp", outcome |-> outcome, token |-> tok]]
       /\ issued' = IF Truthy(tok) THEN issued + 1 ELSE issued
       /\ issued_to' = IF Truthy(tok) THEN p ELSE issued_to
  /\ UNCHANGED <<logged_in, pc, call, locals, result, trace, start_authed, seen, posted>>

(* ------------------------------- login -------------------------------- *)

\* The response to the warm-up GET: its status is not looked at.
LoginWarmup(p) ==
  /\ Answered(p, "login_get")
  /\ IF net[p].outcome = "transport"
     THEN Raise(p, ClientError, "transport", "Network error during login")
     ELSE Await(p, trace[p], "login_post", "POST", "index.php", Credentials, NoLocals)
  /\ UNCHANGED <<logged_in, call, portal, start_authed, seen>>

\* Mutant: only the login form is looked for.
LoginRejectedFormOnly(body) == body.form

\* The login form is shown again, or the invalid-credentials text.
LoginRejected(body) == body.form \/ body.invalid_text

\* The markers a login response body shows.
Markers(body) ==
  (IF body.form THEN {"form"} ELSE {}) \cup (IF body.invalid_text THEN {"invalid_text"} ELSE {})

\* The response to the login POST.
LoginPost(p) ==
  /\ Answered(p, "login_post")
  /\ \E body \in LoginBodies :
       IF net[p].outcome = "status"
       THEN /\ Raise(p, ClientError, "status", "HTTP error during login")
            /\ UNCHANGED <<logged_in, seen>>
       ELSE IF net[p].outcome = "transport"
       THEN /\ Raise(p, ClientError, "transport", "Network error during login")
            /\ UNCHANGED <<logged_in, seen>>
       ELSE /\ seen' = [seen EXCEPT ![p].login = Markers(body)]
            /\ IF LoginRejected(body)
               THEN /\ Raise(p, ClientError, "login_rejected",
                             Get(body.alert, "Invalid credentials"))
                    /\ UNCHANGED logged_in
               ELSE /\ logged_in' = TRUE
                    /\ IF call[p].op = "login"
                       THEN Return(p, None)
                       ELSE Begin(p, trace[p], call[p])
  /\ UNCHANGED <<call, portal, start_authed>>

(* -------------------------- call forwarding --------------------------- *)

\* What the caller has seen, once it has parsed the call-forwarding page pg.
SeenPage(old, tok, pg) ==
  [old EXCEPT !.token = tok, !.btel = pg.btel, !.voicemail = pg.voicemail]

\* get_call_forwarding_settings: the response to its GET.
GetCallForwarding(p, pages) ==
  /\ Answered(p, "cf_get")
  /\ IF net[p].outcome # "ok"
     THEN RaiseUnwrapped(p) /\ UNCHANGED seen
     ELSE \E pg \in pages :
            /\ Return(p, ParseSettings(pg))
            /\ seen' = [seen EXCEPT ![p] = SeenPage(seen[p], net[p].token, pg)]
  /\ UNCHANGED <<logged_in, call, portal, start_authed>>

\* set_call_forwarding_rule: the response to the GET of its
\* get_call_forwarding_settings, up to the GET for the token.
SetRuleRead(p, pages) ==
  /\ Answered(p, "cf_read")
  /\ IF net[p].outcome # "ok"
     THEN RaiseUnwrapped(p) /\ UNCHANGED seen
     ELSE \E pg \in pages :
            /\ seen' = [seen EXCEPT ![p] = SeenPage(seen[p], net[p].token, pg)]
            /\ Await(p, trace[p], "cf_token", "GET", "einstellungen_rufumleitung.php",
                     EmptyDict, [locals[p] EXCEPT !.current_settings = ParseSettings(pg)])
  /\ UNCHANGED <<logged_in, call, portal, start_authed>>

\* Mutant: the token of the page fetched first in the call is used.
FormTokenFirstPage(p) == seen[p].token

\* The local `token`: the value of the token input of the page just fetched.
FormToken(p) == net[p].token

\* set_call_forwarding_rule: the response to the GET for the token, up to the POST.
SetRuleToken(p) ==
  /\ Answered(p, "cf_token")
  /\ IF net[p].outcome # "ok"
     THEN RaiseUnwrapped(p) /\ UNCHANGED seen
     ELSE /\ seen' = [seen EXCEPT ![p].token = net[p].token]
          /\ IF TokenMissing(FormToken(p))
             THEN Raise(p, ClientError, "no_token", "Could not find CSRF token")
             ELSE LET pl == BuildPayload(locals[p].current_settings, call[p].rule,
                                         FormToken(p))
                  IN  Await(p, trace[p], "cf_post", "POST",
                            "einstellungen_rufumleitung.php", pl,
                            [locals[p] EXCEPT !.token = FormToken(p), !.payload = pl])
  /\ UNCHANGED <<logged_in, call, portal, start_authed>>

\* "Fehler" in text or "error" in text.lower()
ServerReportedError(body) == body.fehler \/ body.error

\* set_call_forwarding_rule: the response to the POST.
SetRulePost(p) ==
  /\ Answered(p, "cf_post")
  /\ IF net[p].outcome # "ok"
     THEN RaiseUnwrapped(p)
     ELSE \E body \in PostBodies :
            IF ServerReportedError(body)
            THEN Raise(p, ClientError, "app", "Failed to set call forwarding rule")
            ELSE Return(p, "Successfully updated call forwarding rule")
  /\ UNCHANGED <<logged_in, call, portal, start_authed, seen>>

(* ---------------------------- SIM settings ---------------------------- *)

\* set_sim_setting: the response to the GET for the token, up to the POST.
SetSimToken(p) ==
  /\ Answered(p, "sim_token")
  /\ IF net[p].outcome # "ok"
     THEN RaiseUnwrapped(p) /\ UNCHANGED seen
     ELSE /\ seen' = [seen EXCEPT ![p].token = net[p].token]
          /\ IF TokenMissing(FormToken(p))
             THEN Raise(p, ClientError, "no_token", "Could not find CSRF token")
             ELSE LET pl == [key |-> Kebab(call[p].setting_name),
                             value |-> IF call[p].enabled THEN "t" ELSE "f",
                             token |-> FormToken(p)]
                  IN  Await(p, trace[p], "sim_post", "POST",
                            "einstellungen_sim_setdata.php", pl,
                            [locals[p] EXCEPT !.token = FormToken(p), !.payload = pl])
  /\ UNCHANGED <<logged_in, call, portal, start_authed>>

\* set_sim_setting: the response to the POST.
SetSimPost(p) ==
  /\ Answered(p, "sim_post")
  /\ IF net[p].outcome # "ok"
     THEN RaiseUnwrapped(p)
     ELSE \E text \in SetResponses :
            IF StripUpper(text) # "OK"
            THEN Raise(p, ClientError, "app", text)
            ELSE Return(p, [page |-> text, message |-> "Successfully set"])
  /\ UNCHANGED <<logged_in, call, portal, start_authed, seen>>

(* ------------------------ normalizers (partial) ------------------------ *)

\* A phone number is a sequence of one-character strings.
Digits == {"0", "1", "2", "3", "4", "5", "6", "7", "8", "9"}

IsDigitChar(ch) == ch \in Digits

\* Mutant: the country code is put in front of any digits.
NormalizeAlwaysPrefix(number_str) ==
  LET digits == SelectSeq(number_str, IsDigitChar)
  IN  IF digits = <<>> THEN <<>>
      ELSE IF digits[1] = "0" THEN <<"+", "4", "3">> \o Tail(digits)
      ELSE <<"+", "4", "3">> \o digits

\* _normalize_phone_number
NormalizePhoneNumber(number_str) ==
  LET digits == SelectSeq(number_str, IsDigitChar)
  IN  IF number_str = <<>> THEN <<>>
      ELSE IF digits = <<>> THEN <<>>
      ELSE IF Len(digits) >= 2 /\ digits[1] = "4" /\ digits[2] = "3" THEN <<"+">> \o digits
      ELSE IF digits[1] = "0" THEN <<"+", "4", "3">> \o Tail(digits)
      ELSE <<"+", "4", "3">> \o digits

\* The texts of date cells, and datetime.strptime(text, "%d.%m.%Y") of each
\* ("ValueError" when it raises).
DateTexts == {"15.03.2024", "31.02.2024"}

ValueError == [error |-> "ValueError"]

ParseDate(text) ==
  IF text = "15.03.2024" THEN [year |-> 2024, month |-> 3, day |-> 15] ELSE ValueError

\* date.today()
Today == [year |-> 2026, month |-> 1, day |-> 1]

\* The texts of timestamp cells, and strptime(text, "%d.%m.%Y %H:%M:%S") of each.
ParseTimestamp(text) ==
  IF text = "15.03.2024 10:00:00"
  THEN [year |-> 2024, month |-> 3, day |-> 15, hour |-> 10, minute |-> 0, second |-> 0]
  ELSE ValueError

\* _parse_number on the amount texts of the pages, in hundredths.
ParseNumber(text) ==
  CASE text = "12,50 €" -> 1250
    [] text = "0,10" -> 10
    [] text = "0,1" -> 10
    [] text = "0,4" -> 40
    [] text = "0" -> 0
    [] text = "1" -> 100
    [] text = "5" -> 500
    [] text = "10" -> 1000
    [] text = "1.024" -> 102400
    [] text = "5.000" -> 500000
    [] OTHER -> 0

\* str.strip() on the cell texts of the pages.
Strip(text) == IF text = " " THEN "" ELSE text

\* urljoin(base_url, href) for the relative hrefs of the pages.
UrlJoin(href) == "https://portal/app/" \o href

\* All sequences over S of length at most n.
SeqUpTo(S, n) == UNION {[1..k -> S] : k \in 0..n}

\* The characters of the phone number texts.
NumberChars == {"0", "3", "4", "7", "+", " "}

\* A direct call of _normalize_phone_number, as the first call of the caller: the
\* function reads nothing but its argument, and it has no await.
CallNormalize(p) ==
  /\ pc[p] = "idle" /\ call[p] = NoCall
  /\ \E number_str \in SeqUpTo(NumberChars, MaxLen) :
       /\ call' = [call EXCEPT ![p] = [op |-> "_normalize_phone_number",
                                       number_str |-> number_str, again |-> FALSE]]
       /\ Done(p, <<>>, [kind |-> "return", value |-> NormalizePhoneNumber(number_str)])
  /\ start_authed' = [start_authed EXCEPT ![p] = logged_in]
  /\ seen' = [seen EXCEPT ![p] = NoSeen]
  /\ UNCHANGED <<logged_in, issued, issued_to, posted>>

\* _normalize_phone_number called on what its last call returned.
CallNormalizeAgain(p) ==
  /\ pc[p] = "idle" /\ call[p].op = "_normalize_phone_number" /\ ~call[p].again
  /\ call' = [call EXCEPT ![p] = [op |-> "_normalize_phone_number",
                                  number_str |-> result[p].value, again |-> TRUE]]
  /\ Done(p, <<>>, [kind |-> "return", value |-> NormalizePhoneNumber(result[p].value)])
  /\ start_authed' = [start_authed EXCEPT ![p] = logged_in]
  /\ seen' = [seen EXCEPT ![p] = NoSeen]
  /\ UNCHANGED <<logged_in, issued, issued_to, posted>>

(* --------------------------- account overview -------------------------- *)

\* A Python float: the double nearest to h/100, ulp units in the last place
\* away from it, or positive infinity.
Float(h) == [inf |-> FALSE, h |-> h, ulp |-> 0]

Inf == [inf |-> TRUE, h |-> 0, ulp |-> 0]

\* a - b in IEEE-754 double arithmetic, on the values of the pages below: exact
\* on whole numbers, rounded on 0.4 - 0.1 (0.30000000000000004) and on
\* 0.4 - 0.30000000000000004 (0.09999999999999998).
FloatSub(a, b) ==
  IF a.inf THEN Inf
  ELSE IF a = Float(40) /\ b = Float(10) THEN [inf |-> FALSE, h |-> 30, ulp |-> 1]
  ELSE IF a = Float(40) /\ b = [inf |-> FALSE, h |-> 30, ulp |-> 1]
  THEN [inf |-> FALSE, h |-> 10, ulp |-> -2]
  ELSE Float(a.h - b.h)

\* str.lower() on the labels, totals and headings of the pages.
LowerText(t) ==
  CASE t = "Verbraucht:" -> "verbraucht:"
    [] t = "VERBRAUCHT:" -> "verbraucht:"
    [] t = "Rest:" -> "rest:"
    [] t = "UNLIMITED" -> "unlimited"
    [] t = "Unlimited" -> "unlimited"
    [] t = "Minuten/SMS" -> "minuten/sms"
    [] t = "Datenvolumen" -> "datenvolumen"
    [] t = "Sonstiges" -> "sonstiges"
    [] OTHER -> t

\* The text of a usage bar's right label, by its parts: the text is
\* "<label> <used> (von <total> <unit>)", and "<label> <used> (von <total>)"
\* when unit is empty.
BarTexts ==
  [label : {"Verbraucht:", "VERBRAUCHT:", "Rest:"}, used : {"1"},
   total : {"5", "10", "unlimited", "UNLIMITED"}, unit : {"MB", ""}]

NoMatch == [used |-> Float(0), total |-> Float(0), unit |-> ""]

\* Mutant: the word unlimited is recognized in lower case only.
IsUnlimitedExact(total_str) == total_str = "unlimited"

\* total_str.lower() == 'unlimited'
IsUnlimited(total_str) == LowerText(total_str) = "unlimited"

\* _parse_usage_bar.  The pattern is matched ignoring case; its last group needs
\* a word after the total, so without a unit a one-character total does not match,
\* and of the total "10" the "0" is taken as the unit.
ParseUsageBar(text) ==
  IF LowerText(text.label) # "verbraucht:" THEN NoMatch
  ELSE IF text.unit # ""
  THEN [used |-> Float(ParseNumber(text.used)),
        total |-> IF IsUnlimited(text.total) THEN Inf ELSE Float(ParseNumber(text.total)),
        unit |-> text.unit]
  ELSE IF text.total = "10"
  THEN [used |-> Float(ParseNumber(text.used)), total |-> Float(ParseNumber("1")), unit |-> "0"]
  ELSE NoMatch

\* UnitQuota(used=used, total=total, unit=unit, remaining=total - used,
\*           unlimited=(total == float('inf')))
BarQuota(used, total, unit) ==
  [used |-> used, total |-> total, unit |-> unit, remaining |-> FloatSub(total, used),
   unlimited |-> total = Inf]

\* An unset Optional[UnitQuota] field.
NoQuota == [unset |-> TRUE]

\* PackageUsage(package_name=title), of which the name, the start of validity
\* and the quotas are modelled.
PackageUsage(title) ==
  [package_name |-> title, valid_from |-> None, minutes |-> NoQuota, sms |-> NoQuota,
   data_domestic |-> NoQuota, data_eu |-> NoQuota, data_carried_over |-> NoQuota]

\* One pass of the loop over the usage bars: acc is the package and has_usage_data.
ApplyBar(acc, item) ==
  LET r     == ParseUsageBar(item.text)
      quota == BarQuota(r.used, r.total, r.unit)
      both  == [quota EXCEPT !.unit = "Minutes/SMS"]
  IN  IF ~Truthy(r.unit) THEN acc
      ELSE IF LowerText(item.heading) = "minuten/sms"
      THEN [package |-> [acc.package EXCEPT !.minutes = both, !.sms = both],
            has_usage_data |-> TRUE]
      ELSE IF LowerText(item.heading) = "datenvolumen"
      THEN [package |-> [acc.package EXCEPT !.data_domestic = quota],
            has_usage_data |-> TRUE]
      ELSE [acc EXCEPT !.has_usage_data = TRUE]

RECURSIVE ApplyBars(_, _, _)
ApplyBars(acc, bars, i) ==
  IF i > Len(bars) THEN acc ELSE ApplyBars(ApplyBar(acc, bars[i]), bars, i + 1)

\* strptime(value, "%d.%m.%Y %H:%M") on the values of the pages.
ParseMinute(text) ==
  IF text = "01.03.2024 00:00"
  THEN [year |-> 2024, month |-> 3, day |-> 1, hour |-> 0, minute |-> 0]
  ELSE ValueError

EuKey == "datenvolumen eu verbleibend"

CarryKey == "datenmitnahme aus den vormonaten"

\* The items of a card's detail list, as "<key>: <a> MB von <b> MB" for the EU
\* volume ("<key>: <a> MB" when b is empty) and "<key>: <a>" otherwise.
DetailItems ==
  {[key |-> EuKey, a |-> "0,1", b |-> "0,4"], [key |-> EuKey, a |-> "1.024", b |-> "5.000"],
   [key |-> EuKey, a |-> "1.024", b |-> ""], [key |-> CarryKey, a |-> "1.024", b |-> ""],
   [key |-> "gültig von", a |-> "01.03.2024 00:00", b |-> ""],
   [key |-> "gültig von", a |-> "gestern", b |-> ""]}

\* One pass of the loop over the detail items.
ApplyDetail(package, item) ==
  IF item.key = "gültig von" THEN [package EXCEPT !.valid_from = ParseMinute(item.a)]
  ELSE IF item.key = EuKey
  THEN IF item.b # ""
       THEN LET remaining_eu == Float(ParseNumber(item.a))
                total_eu     == Float(ParseNumber(item.b))
            IN  [package EXCEPT !.data_eu =
                   [used |-> FloatSub(total_eu, remaining_eu), total |-> total_eu,
                    unit |-> "MB", remaining |-> remaining_eu, unlimited |-> FALSE]]
       ELSE package
  ELSE IF item.key = CarryKey
  THEN [package EXCEPT !.data_carried_over =
          [used |-> Float(0), total |-> Float(ParseNumber(item.a)), unit |-> "MB",
           remaining |-> Float(ParseNumber(item.a)), unlimited |-> FALSE]]
  ELSE package

RECURSIVE ApplyDetails(_, _, _)
ApplyDetails(package, details, i) ==
  IF i > Len(details) THEN package
  ELSE ApplyDetails(ApplyDetail(package, details[i]), details, i + 1)

\* A detail item on which strptime raises ValueError.
DetailRaises(item) == item.key = "gültig von" /\ ParseMinute(item.a) = ValueError

\* self._excluded_sections, as far as the pages name them.
ExcludedSections == {"Oft benutzt", "Aktuelle Kosten"}

\* The bold items of the prepaid SIM-info card that name the tariff, each as a
\* package of its own.
RECURSIVE TariffPackages(_, _)
TariffPackages(bold, i) ==
  IF i > Len(bold) THEN <<>>
  ELSE (IF bold[i] = "Tarif: Basic" THEN <<PackageUsage("Basic")>> ELSE <<>>)
       \o TariffPackages(bold, i + 1)

\* The card is skipped, or handled as the prepaid SIM-info card.
CardSkipped(card) == ~Truthy(card.title) \/ card.title \in ExcludedSections

IsSimInfo(card, is_prepaid) == is_prepaid /\ card.title = "SIM Info"

\* The packages one card contributes.
CardPackages(card, is_prepaid) ==
  IF CardSkipped(card) THEN <<>>
  ELSE IF IsSimInfo(card, is_prepaid) THEN TariffPackages(card.bold, 1)
  ELSE LET acc == ApplyBars([package |-> PackageUsage(card.title), has_usage_data |-> FALSE],
                            card.bars, 1)
       IN  IF acc.has_usage_data THEN <<ApplyDetails(acc.package, card.details, 1)>>
           ELSE <<>>

\* The card raises ValueError: a detail item of a package card has no valid date.
CardRaises(card, is_prepaid) ==
  /\ ~CardSkipped(card) /\ ~IsSimInfo(card, is_prepaid)
  /\ \E i \in 1..Len(card.details) : DetailRaises(card.details[i])

RECURSIVE PackagesOf(_, _, _)
PackagesOf(cards, is_prepaid, i) ==
  IF i > Len(cards) THEN <<>>
  ELSE CardPackages(cards[i], is_prepaid) \o PackagesOf(cards, is_prepaid, i + 1)

\* The overview page raises while it is parsed: a card does, or the provisional
\* bill date of a contract account's costs card is no date.
UsageRaises(pg) ==
  \/ \E i \in 1..Len(pg.cards) : CardRaises(pg.cards[i], pg.is_prepaid)
  \/ ~pg.is_prepaid /\ Truthy(pg.next_bill_date) /\ ParseDate(pg.next_bill_date) = ValueError

Card(title, bold, bars, details) ==
  [title |-> title, bold |-> bold, bars |-> bars, details |-> details]

BarItems(headings, texts) == [heading : headings, text : texts]

\* Cards with any one usage bar and at most one detail item, or with two bars
\* under the recognized headings.
RichCards ==
  {Card("Tarif", <<>>, bars, details) :
     bars \in SeqUpTo(BarItems({"Minuten/SMS", "Datenvolumen", "Sonstiges"}, BarTexts), 1)
              \cup [1..2 -> BarItems({"Minuten/SMS", "Datenvolumen"},
                                     {t \in BarTexts : t.label = "Verbraucht:" /\ t.unit = "MB"})],
     details \in SeqUpTo(DetailItems, 1)}

\* A few cards of each kind.
PlainCards ==
  {Card("", <<>>, <<>>, <<>>), Card("Oft benutzt", <<>>, <<>>, <<>>),
   Card("SIM Info", <<"Tarif: Basic">>, <<>>, <<>>), Card("SIM Info", <<"Guthaben">>, <<>>, <<>>),
   Card("Tarif", <<>>, <<>>, <<>>),
   Card("Tarif", <<>>,
        <<[heading |-> "Datenvolumen",
           text |-> [label |-> "Verbraucht:", used |-> "1", total |-> "5", unit |-> "MB"]]>>,
        <<>>)}

Overview(is_prepaid, cards, next_bill_date) ==
  [is_prepaid |-> is_prepaid, cards |-> cards, next_bill_date |-> next_bill_date]

\* The overview pages with one card of any content.
RichOverviews == {Overview(pre, <<c>>, None) : pre \in BOOLEAN, c \in RichCards}

\* The overview pages with several cards.
PlainOverviews ==
  {Overview(pre, cards, d) : pre \in BOOLEAN, cards \in SeqUpTo(PlainCards, MaxCards),
                             d \in {None} \cup DateTexts}

\* A direct call of _parse_usage_bar: it has no await.
CallParseUsageBar(p) ==
  /\ pc[p] = "idle"
  /\ \E text \in BarTexts :
       /\ call' = [call EXCEPT ![p] = [op |-> "_parse_usage_bar", text |-> text]]
       /\ Done(p, <<>>, [kind |-> "return", value |-> ParseUsageBar(text)])
  /\ start_authed' = [start_authed EXCEPT ![p] = logged_in]
  /\ seen' = [seen EXCEPT ![p] = NoSeen]
  /\ UNCHANGED <<logged_in, portal>>

\* get_account_usage: the response to its GET.  Both except clauses wrap: a
\* transport failure is an httpx.RequestError; a status failure, and an exception
\* of the parsing, fall to `except Exception`.  Of the AccountUsage returned, the
\* account type and the packages are modelled.
GetAccountUsage(p, pages) ==
  /\ Answered(p, "usage")
  /\ IF net[p].outcome = "transport"
     THEN Raise(p, ClientError, "transport", "HTTP error fetching account usage")
     ELSE IF net[p].outcome = "status"
     THEN Raise(p, ClientError, "status", "Failed to parse account usage")
     ELSE \E pg \in pages :
            IF UsageRaises(pg)
            THEN Raise(p, ClientError, "parse", "Failed to parse account usage")
            ELSE Return(p, [page |-> pg, is_prepaid |-> pg.is_prepaid,
                            packages |-> PackagesOf(pg.cards, pg.is_prepaid, 1)])
  /\ UNCHANGED <<logged_in, call, portal, start_authed, seen>>

(* ---------------------------- phone numbers ---------------------------- *)

\* The <a> items of the phone-number dropdown.
NumberItems ==
  [name : {None, "Max"}, number_raw : {<<>>, <<"0", "6", "6", "/", "1">>},
   subscriber : {None, "sub1"}]

ItemUsable(item) == Strip(Get(item.name, "")) # "" /\ item.number_raw # <<>>

PhoneNumber(item, sub, active) ==
  [name |-> Strip(Get(item.name, "")), number |-> NormalizePhoneNumber(item.number_raw),
   subscriber_id |-> sub, is_active |-> active]

RECURSIVE OtherNumbers(_, _)
OtherNumbers(items, i) ==
  IF i > Len(items) THEN <<>>
  ELSE (IF ItemUsable(items[i]) THEN <<PhoneNumber(items[i], items[i].subscriber, FALSE)>>
        ELSE <<>>) \o OtherNumbers(items, i + 1)

\* The list get_phone_numbers builds from the active item (a sequence: empty
\* when the page has none) and the items under "Rufnummer wechseln:".
ParsePhoneNumbers(active, others) ==
  (IF active # <<>> /\ ItemUsable(active[1]) THEN <<PhoneNumber(active[1], None, TRUE)>>
   ELSE <<>>)
  \o OtherNumbers(others, 1)

\* get_phone_numbers: the response to its GET.
GetPhoneNumbers(p, items) ==
  /\ Answered(p, "numbers")
  /\ IF net[p].outcome # "ok"
     THEN RaiseUnwrapped(p)
     ELSE \E active \in SeqUpTo(items, 1) : \E others \in SeqUpTo(items, MaxRows - 1) :
            Return(p, [page |-> [active |-> active, others |-> others],
                       list |-> ParsePhoneNumbers(active, others)])
  /\ UNCHANGED <<logged_in, call, portal, start_authed, seen>>

\* switch_active_phone_number: the response to its GET.  The text of the
\* user dropdown is given by its parts between ' - '.
SwitchActivePhoneNumber(p) ==
  /\ Answered(p, "switch")
  /\ IF net[p].outcome # "ok"
     THEN RaiseUnwrapped(p)
     ELSE \E parts \in {<<>>, <<<<"M">>, <<"0", "6", "6">>>>} :
            Return(p, NormalizePhoneNumber(IF parts = <<>> THEN <<>> ELSE parts[Len(parts)]))
  /\ UNCHANGED <<logged_in, call, portal, start_authed, seen>>

(* -------------------------------- bills -------------------------------- *)

\* A row of the bill list: the date cell, the amount cell, the number cell and
\* the hrefs of the two document links.
BillRows ==
  [date_raw : {None} \cup DateTexts, amount : {"12,50 €"}, bill_number : {"R1", "R2"},
   bill_href : {None, "", "bill.pdf"}, egn_href : {None, "", "egn.pdf"}]

\* Mutant: an itemized record is assumed wherever the link has an href attribute.
HasEgnAttribute(egn_pdf_url) == egn_pdf_url # None

\* bool(egn_pdf_url)
HasEgn(egn_pdf_url) == Truthy(egn_pdf_url)

BillSummary(row) ==
  [date |-> IF Truthy(Strip(Get(row.date_raw, ""))) THEN ParseDate(row.date_raw) ELSE Today,
   amount |-> ParseNumber(row.amount),
   bill_number |-> Strip(row.bill_number),
   bill_pdf_url |-> UrlJoin(row.bill_href),
   egn_pdf_url |-> IF Truthy(row.egn_href) THEN UrlJoin(row.egn_href) ELSE None,
   has_egn |-> HasEgn(row.egn_href)]

\* The date of a row is parsed before its links are looked at: strptime raises
\* ValueError on a text that is no date.
RowRaises(row) ==
  Truthy(Strip(Get(row.date_raw, ""))) /\ ParseDate(row.date_raw) = ValueError

RECURSIVE BillsOf(_, _)
BillsOf(rows, i) ==
  IF i > Len(rows) THEN <<>>
  ELSE (IF Truthy(rows[i].bill_href) THEN <<BillSummary(rows[i])>> ELSE <<>>)
       \o BillsOf(rows, i + 1)

\* What list_bills does with the response to its GET: the list it returns, or
\* the error it raises (every exception of the body is wrapped).
ListBillsResult(outcome, rows) ==
  IF outcome = "transport"
  THEN Raised(ClientError, "transport", "HTTP error fetching bills list")
  ELSE IF outcome = "status"
  THEN Raised(ClientError, "status", "Failed to parse bills list")
  ELSE IF \E i \in 1..Len(rows) : RowRaises(rows[i])
  THEN Raised(ClientError, "parse", "Failed to parse bills list")
  ELSE [kind |-> "return", value |-> [page |-> rows, list |-> BillsOf(rows, 1)]]

\* list_bills: the response to its GET.
ListBills(p, rows) ==
  /\ Answered(p, "bills")
  /\ \E page \in SeqUpTo(rows, MaxRows) :
       Done(p, trace[p], ListBillsResult(net[p].outcome, page))
  /\ UNCHANGED <<logged_in, call, portal, start_authed, seen>>

\* str.lower() on the bill types of the model.
Lower(t) == IF t = "BILL" THEN "bill" ELSE t

NoBill == [bill_number |-> None]

\* next((b for b in bills if b.bill_number == bill_number), None)
RECURSIVE FirstBill(_, _, _)
FirstBill(bills, bill_number, i) ==
  IF i > Len(bills) THEN NoBill
  ELSE IF bills[i].bill_number = bill_number THEN bills[i]
  ELSE FirstBill(bills, bill_number, i + 1)

\* get_bill: the response to the GET of its list_bills, up to the GET of the document.
GetBillList(p, rows) ==
  /\ Answered(p, "bill_list")
  /\ \E page \in SeqUpTo(rows, MaxRows) :
       LET res    == ListBillsResult(net[p].outcome, page)
           target == FirstBill(res.value.list, call[p].bill_number, 1)
           url    == IF Lower(call[p].bill_type) = "bill" THEN target.bill_pdf_url
                     ELSE target.egn_pdf_url
       IN  IF res.kind = "raise" THEN Done(p, trace[p], res) /\ UNCHANGED seen
           ELSE /\ seen' = [seen EXCEPT ![p].bills = [read |-> TRUE, list |-> res.value.list]]
                /\ IF target = NoBill
                   THEN Raise(p, ClientError, "not_found", "Bill not found")
                   ELSE IF ~Truthy(url)
                   THEN Raise(p, ClientError, "unavailable", "Document type is not available")
                   ELSE Await(p, trace[p], "bill_pdf", "GET", url, EmptyDict, NoLocals)
  /\ UNCHANGED <<logged_in, call, portal, start_authed>>

\* get_bill: the response to the GET of the document.
GetBillPdf(p) ==
  /\ Answered(p, "bill_pdf")
  /\ IF net[p].outcome = "status"
     THEN Raise(p, ClientError, "status", "HTTP error fetching PDF")
     ELSE IF net[p].outcome = "transport"
     THEN Raise(p, ClientError, "transport", "Network error fetching PDF")
     ELSE \E content_type \in {"application/pdf", "text/html"} :
            Return(p, [content |-> "bytes", content_type |-> content_type])
  /\ UNCHANGED <<logged_in, call, portal, start_authed, seen>>

(* ----------------------------- call history ---------------------------- *)

\* A block of the call history, as the label -> value dictionary built from it
\* (None: the block has no such label).
HistoryBlocks ==
  [timestamp : {None, "", "15.03.2024 10:00:00", "gestern"},
   dauer_kosten : {None, "", "0:02:12 / 0,10"}]

\* dauer_kosten_str.split('/') on the texts of the pages, stripped.
SplitDauerKosten(text) ==
  IF text = "0:02:12 / 0,10" THEN <<"0:02:12", "0,10">> ELSE <<text>>

CallHistoryEntry(block) ==
  LET parts == SplitDauerKosten(Get(block.dauer_kosten, ""))
  IN  [timestamp |-> ParseTimestamp(block.timestamp), type |-> "Unbekannt", number |-> "",
       duration |-> IF parts # <<>> THEN parts[1] ELSE "0:00:00",
       cost |-> ParseNumber(IF Len(parts) > 1 THEN parts[2] ELSE "0")]

\* The block is skipped: no timestamp, or one strptime raises ValueError on.
BlockSkipped(block) ==
  ~Truthy(block.timestamp) \/ ParseTimestamp(block.timestamp) = ValueError

RECURSIVE HistoryOf(_, _)
HistoryOf(blocks, i) ==
  IF i > Len(blocks) THEN <<>>
  ELSE (IF BlockSkipped(blocks[i]) THEN <<>> ELSE <<CallHistoryEntry(blocks[i])>>)
       \o HistoryOf(blocks, i + 1)

\* list_call_history: the response to its GET.
ListCallHistory(p, blocks) ==
  /\ Answered(p, "history")
  /\ IF net[p].outcome # "ok"
     THEN RaiseUnwrapped(p)
     ELSE \E page \in SeqUpTo(blocks, MaxRows) :
            Return(p, [page |-> page, list |-> HistoryOf(page, 1)])
  /\ UNCHANGED <<logged_in, call, portal, start_authed, seen>>

(* ------------------------- SIM settings (read) ------------------------- *)

\* SimSettings.model_fields (two of the ten are enough for the keys of the pages).
SimFields == {"roaming_barred", "data_barred"}

\* The items of the JSON payload: a key, and a value or none.
SimItems ==
  {[key |-> k, has_value |-> h, value |-> v] :
     k \in {"roaming-barred", "data_barred", "tariff-name"},
     h \in BOOLEAN, v \in BOOLEAN} \ {[key |-> k, has_value |-> FALSE, value |-> TRUE] :
                                        k \in {"roaming-barred", "data_barred", "tariff-name"}}

\* Mutant: the key is looked up as it is.
SnakeUntranslated(key) == key

\* item["key"].replace('-', '_') on the keys above.
Snake(key) ==
  CASE key = "roaming-barred" -> "roaming_barred"
    [] key = "tariff-name" -> "tariff_name"
    [] OTHER -> key

\* item.get("value", False)
ItemValue(item) == IF item.has_value THEN item.value ELSE FALSE

RECURSIVE SettingsData(_, _, _)
SettingsData(d, items, i) ==
  IF i > Len(items) THEN d
  ELSE SettingsData(IF Snake(items[i].key) \in SimFields
                    THEN Put(d, Snake(items[i].key), ItemValue(items[i])) ELSE d,
                    items, i + 1)

\* The JSON payloads of the SIM-settings API (None: no status field).
SimResponses == [status : {"OK", "ERROR", None}, data : SeqUpTo(SimItems, MaxRows)]

\* get_sim_settings: the response to its POST.  The SimSettings returned is
\* given by the fields that are set; the error message quotes the payload.
GetSimSettings(p) ==
  /\ Answered(p, "sim_get")
  /\ IF net[p].outcome # "ok"
     THEN RaiseUnwrapped(p)
     ELSE \E api_response \in SimResponses :
            IF api_response.status # "OK"
            THEN Raise(p, ClientError, "app", api_response)
            ELSE Return(p, [page |-> api_response,
                            settings |-> SettingsData([x \in {} |-> TRUE],
                                                      api_response.data, 1)])
  /\ UNCHANGED <<logged_in, call, portal, start_authed, seen>>

(* ------------------------- the specifications -------------------------- *)

\* The calls of a tool handler, given the rules, bill types and setting names it passes.
CallsWith(rules, bill_types, names) ==
  {[op |-> o] : o \in {"login", "get_account_usage", "get_phone_numbers", "list_bills",
                       "list_call_history", "get_sim_settings",
                       "get_call_forwarding_settings"}}
  \cup {[op |-> "switch_active_phone_number", subscriber_id |-> "sub1"]}
  \cup {[op |-> "get_bill", bill_number |-> "R1", bill_type |-> t] : t \in bill_types}
  \cup {[op |-> "set_sim_setting", setting_name |-> n, enabled |-> e] :
          n \in names, e \in BOOLEAN}
  \cup {[op |-> "set_call_forwarding_rule", rule |-> r] : r \in rules}

\* The inputs where one handler at a time calls any operation.
Wide ==
  [calls |-> CallsWith(FewRules, {"bill", "egn", "BILL", "pdf"}, SettingNames),
   pages |-> FlagPages, items |-> NumberItems, rows |-> BillRows, blocks |-> HistoryBlocks,
   overviews |-> {pg \in PlainOverviews : Len(pg.cards) <= 1}]

Init ==
  /\ logged_in = FALSE
  /\ pc = [p \in Procs |-> "idle"]
  /\ call = [p \in Procs |-> NoCall]
  /\ net = [p \in Procs |-> NoMsg]
  /\ locals = [p \in Procs |-> NoLocals]
  /\ result = [p \in Procs |-> NoResult]
  /\ issued = 0
  /\ trace = [p \in Procs |-> <<>>]
  /\ start_authed = [p \in Procs |-> FALSE]
  /\ issued_to = None
  /\ seen = [p \in Procs |-> NoSeen]
  /\ posted = EmptyDict

\* A step of caller p, or of the portal on its request, with the inputs U.
Step(p, U) ==
  \/ Call(p, U.calls)
  \/ Server(p, Outcomes)
  \/ LoginWarmup(p)
  \/ LoginPost(p)
  \/ GetAccountUsage(p, U.overviews)
  \/ GetPhoneNumbers(p, U.items)
  \/ SwitchActivePhoneNumber(p)
  \/ ListBills(p, U.rows)
  \/ GetBillList(p, U.rows)
  \/ GetBillPdf(p)
  \/ ListCallHistory(p, U.blocks)
  \/ GetSimSettings(p)
  \/ SetSimToken(p)
  \/ SetSimPost(p)
  \/ GetCallForwarding(p, U.pages)
  \/ SetRuleRead(p, U.pages)
  \/ SetRuleToken(p)
  \/ SetRulePost(p)

Next == Step("p1", Wide)

\* One tool handler at a time calls the client, any operation.
Spec == Init /\ [][Next]_vars

NextUsage ==
  \/ Call("p1", {[op |-> "get_account_usage"]})
  \/ Server("p1", Outcomes)
  \/ LoginWarmup("p1")
  \/ LoginPost("p1")
  \/ GetAccountUsage("p1", RichOverviews \cup PlainOverviews)
  \/ CallParseUsageBar("p1")

\* One caller at a time reads the account overview, with any cards on the page,
\* or parses the text of a usage bar.
SpecUsage == Init /\ [][NextUsage]_vars

NextNormalize ==
  \/ CallNormalize("p1")
  \/ CallNormalizeAgain("p1")

\* Phone number texts are normalized, and the results normalized again.
SpecNormalize == Init /\ [][NextNormalize]_vars

\* The calls of the call-forwarding tools.
FormCalls ==
  {[op |-> "get_call_forwarding_settings"]}
  \cup {[op |-> "set_call_forwarding_rule", rule |-> r] : r \in FormRules}

NextForm ==
  \/ Call("p1", FormCalls)
  \/ Server("p1", {"ok"})
  \/ LoginWarmup("p1")
  \/ LoginPost("p1")
  \/ GetCallForwarding("p1", FormPages)
  \/ SetRuleRead("p1", FormPages)
  \/ SetRuleToken("p1")
  \/ SetRulePost("p1")

\* One tool handler at a time reads and edits the call forwarding, the portal
\* answering every request, with any selection on the page.
SpecForm == Init /\ [][NextForm]_vars

\* The calls of the tools that change a setting.
ConcCalls ==
  {[op |-> "set_sim_setting", setting_name |-> "roaming_barred", enabled |-> TRUE]}
  \cup {[op |-> "set_call_forwarding_rule", rule |-> r] : r \in FewRules}

NextConc ==
  \E p \in Procs :
    \/ Call(p, ConcCalls)
    \/ Server(p, Outcomes)
    \/ LoginWarmup(p)
    \/ LoginPost(p)
    \/ SetSimToken(p)
    \/ SetSimPost(p)
    \/ SetRuleRead(p, FewPages)
    \/ SetRuleToken(p)
    \/ SetRulePost(p)

\* Two tool handlers that change settings run concurrently on the one client.
SpecConc == Init /\ [][NextConc]_vars

\* The page the portal shows before any form has been submitted.
FirstPage == MkPage([c \in Conds |-> "d"], [c \in Conds |-> Number1], "05", "a", "d")

\* What a selector or input of the page shows for the form field `name` of pl.
Selected(pl, name) == IF name \in DOMAIN pl THEN pl[name] ELSE None

\* The page the portal shows once it has received the form pl: the form has no
\* partial update, every selector shows the submitted field, and a field that
\* was left out shows nothing selected.
StoredPage(pl) ==
  MkPage([c \in Conds |-> Selected(pl, c \o "_akt")],
         [c \in Conds |-> Selected(pl, c \o "_rn")], Selected(pl, "nann_sek"),
         Selected(pl, "btel_akt"), Selected(pl, "voicemail_play_cli_disable"))

\* The call-forwarding page the portal shows now.
ShownPage == IF posted = EmptyDict THEN FirstPage ELSE StoredPage(posted)

\* The portal answers the request of p and keeps the call-forwarding form it is
\* sent: its answer to a GET of the form page shows the form received last.
Portal(p, outcomes) ==
  /\ net[p].kind = "req"
  /\ \E outcome \in outcomes : \E tok \in TokenChoices(net[p], outcome) :
       /\ net' = [net EXCEPT ![p] = [kind |-> "resp", outcome |-> outcome, token |-> tok,
                                     page |-> ShownPage]]
       /\ issued' = IF Truthy(tok) THEN issued + 1 ELSE issued
       /\ issued_to' = IF Truthy(tok) THEN p ELSE issued_to
       /\ posted' = IF /\ outcome = "ok" /\ net[p].method = "POST"
                       /\ net[p].url = "einstellungen_rufumleitung.php"
                    THEN net[p].data ELSE posted
  /\ UNCHANGED <<logged_in, pc, call, locals, result, trace, start_authed, seen>>

\* The calls of the tool that edits a forwarding rule.
EditCalls == {[op |-> "set_call_forwarding_rule", rule |-> r] : r \in FewRules}

\* A tool handler calls the client once, the second one while the call of the
\* first is in flight.
CallDuring(p, calls) ==
  /\ call[p] = NoCall
  /\ \A q \in Procs \ {p} : call[q] = NoCall \/ pc[q] # "idle"
  /\ Call(p, calls)

NextEdit ==
  \E p \in Procs :
    \/ CallDuring(p, EditCalls)
    \/ Portal(p, Outcomes)
    \/ LoginWarmup(p)
    \/ LoginPost(p)
    \/ SetRuleRead(p, {net[p].page})
    \/ SetRuleToken(p)
    \/ SetRulePost(p)

\* Two tool handlers edit forwarding rules concurrently on the one client, the
\* portal keeping the form it is sent.
SpecEdit == Init /\ [][NextEdit]_vars

(* ------------------------------ properties ----------------------------- *)

\* payload.get(key): None when the payload has no such field.
Field(pl, key) == IF key \in DOMAIN pl THEN pl[key] ELSE None

\* The form POST of set_call_forwarding_rule is in flight for caller p.
FormPostInFlight(p) ==
  /\ net[p].kind = "req" /\ net[p].method = "POST"
  /\ net[p].url = "einstellungen_rufumleitung.php"

\* A POST that changes a setting.
StateChanging(req) ==
  /\ req.method = "POST"
  /\ req.url \in {"einstellungen_sim_setdata.php", "einstellungen_rufumleitung.php"}

Urls(tr) == {tr[i][2] : i \in 1..Len(tr)}

\* The submitted payload carries rule r as it was parsed: its target, its number
\* (no field when none, or an empty one, was parsed) and, for the no-answer rule,
\* its delay (no field when none was parsed).
CarriesParsed(pl, r) ==
  /\ Field(pl, r.condition \o "_akt") = r.target
  /\ Field(pl, r.condition \o "_rn") =
       (IF Truthy(r.target_number) THEN r.target_number ELSE None)
  /\ r.condition # "nann" => Field(pl, r.condition \o "_sek") = None
  /\ r.condition = "nann" =>
       Field(pl, "nann_sek") =
         (IF r.delay_seconds = NoneInt THEN None ELSE ToString(r.delay_seconds))

\* C1: in set_call_forwarding_rule, the submitted payload carries, for each of
\* the three conditions other than the requested one, exactly the target, the
\* target number and the no-answer delay that get_call_forwarding_settings
\* parsed before the update.
C1_OtherRulesUnchanged ==
  \A p \in Procs :
    FormPostInFlight(p) =>
      LET rules == locals[p].current_settings.rules
      IN  /\ Len(rules) = 4
          /\ \A i \in 1..Len(rules) :
               rules[i].condition # call[p].rule.condition =>
                 CarriesParsed(net[p].data, rules[i])

\* C1 witness: a deactivation of the unconditional rule is submitted while the
\* page showed a no-answer forwarding to a number after 5 seconds.
C1_Witness ==
  \E p \in Procs :
    /\ FormPostInFlight(p)
    /\ call[p].rule.condition = "alle" /\ call[p].rule.target = "d"
    /\ Field(net[p].data, "nann_akt") = "a"
    /\ Field(net[p].data, "nann_rn") = Number1
    /\ Field(net[p].data, "nann_sek") = "5"
    /\ Field(net[p].data, "wtel_akt") = "d"

\* C2: in set_call_forwarding_rule, the value submitted for btel_akt and for
\* voicemail_play_cli_disable equals the value selected on the page that was
\* parsed (the parser's fallback 'd' when nothing is selected).
C2_FlagsReemitted ==
  \A p \in Procs :
    FormPostInFlight(p) =>
      /\ Field(net[p].data, "btel_akt") = Get(seen[p].btel, "d")
      /\ Field(net[p].data, "voicemail_play_cli_disable") = Get(seen[p].voicemail, "d")

\* C3: no request to an endpoint other than index.php is in flight while the
\* client is unauthenticated.
C3_NoPageRequestUnauthenticated ==
  \A p \in Procs :
    net[p].kind = "req" /\ net[p].url # "index.php" => logged_in

\* C3 witness: a call that started unauthenticated has logged in and issued a
\* page request.
C3_Witness ==
  \E p \in Procs :
    /\ ~start_authed[p] /\ call[p].op = "get_sim_settings"
    /\ net[p].kind = "req" /\ net[p].url = "einstellungen_sim_getdata.php"

\* The step of caller p consumes a login response that is a failure: a
\* transport error, an HTTP status error of the POST, or a body with the login
\* form or the invalid-credentials text.
LoginFails(p) ==
  /\ net[p].kind = "resp" /\ pc'[p] # pc[p]
  /\ \/ pc[p] = "login_get" /\ net[p].outcome = "transport"
     \/ pc[p] = "login_post" /\ net[p].outcome # "ok"
     \/ pc[p] = "login_post" /\ seen'[p].login # {}

\* C4: the client becomes authenticated only by a login response without the
\* login form and without the invalid-credentials text; a failed login raises
\* the client error, leaves the authentication state as it was, and the call
\* that triggered it has issued no page request.
C4_LoginGate ==
  [][/\ ~logged_in /\ logged_in' =>
          \E p \in Procs : /\ pc[p] = "login_post" /\ net[p].kind = "resp"
                           /\ net[p].outcome = "ok" /\ seen'[p].login = {}
     /\ \A p \in Procs :
          LoginFails(p) =>
            /\ pc'[p] = "idle" /\ result'[p].kind = "raise" /\ result'[p].exc = ClientError
            /\ logged_in' = logged_in
            /\ Urls(trace'[p]) \subseteq {"index.php"}]_vars

\* C4 witness: a get_bill call whose login showed the invalid-credentials text
\* has raised, and the client is unauthenticated.
C4_Witness ==
  \E p \in Procs :
    /\ call[p].op = "get_bill" /\ pc[p] = "idle" /\ result[p].kind = "raise"
    /\ seen[p].login = {"invalid_text"} /\ ~logged_in

Operations ==
  {"get_account_usage", "get_phone_numbers", "switch_active_phone_number", "list_bills",
   "get_bill", "list_call_history", "get_sim_settings", "set_sim_setting",
   "get_call_forwarding_settings", "set_call_forwarding_rule"}

\* C5: once set, the authenticated flag is never cleared, and an operation
\* started while it is set issues no login request.
C5_AuthenticatedIsTerminal ==
  [][/\ logged_in => logged_in'
     /\ \A p \in Procs :
          start_authed'[p] /\ call'[p].op \in Operations =>
            "index.php" \notin Urls(trace'[p])]_vars

\* C5 witness: an operation started while authenticated has failed, and the
\* client is still authenticated.
C5_Witness ==
  \E p \in Procs :
    /\ start_authed[p] /\ call[p].op = "set_sim_setting"
    /\ pc[p] = "idle" /\ result[p].kind = "raise" /\ Len(trace[p]) = 2 /\ logged_in

\* C6: a call that fails on an HTTP status error or a transport error of one of
\* its requests raises KontomanagerClientError and no other exception type.
C6_OneErrorKind ==
  \A p \in Procs :
    result[p].kind = "raise" /\ result[p].cause \in {"status", "transport"} =>
      result[p].exc = ClientError

\* A row with a name and a number.
ValidItem(item) == Truthy(item.name) /\ item.number_raw # <<>>

\* A row with a document link and a date that is not unparseable.
ValidBillRow(row) == Truthy(row.bill_href) /\ row.date_raw = "15.03.2024"

\* A block with a timestamp that parses.
ValidBlock(block) == block.timestamp = "15.03.2024 10:00:00"

CountValid(rows, Valid(_)) == Cardinality({i \in 1..Len(rows) : Valid(rows[i])})

\* C7: get_phone_numbers, list_bills and list_call_history, once their page has
\* arrived, never raise on a malformed row: they return exactly the valid rows.
C7_RowsNeverAbort ==
  \A p \in Procs :
    /\ call[p].op \in {"get_phone_numbers", "list_bills", "list_call_history"}
         /\ result[p].kind = "raise" => result[p].cause # "parse"
    /\ call[p].op = "get_phone_numbers" /\ result[p].kind = "return" =>
         Len(result[p].value.list) =
           CountValid(result[p].value.page.active \o result[p].value.page.others, ValidItem)
    /\ call[p].op = "list_bills" /\ result[p].kind = "return" =>
         Len(result[p].value.list) = CountValid(result[p].value.page, ValidBillRow)
    /\ call[p].op = "list_call_history" /\ result[p].kind = "return" =>
         Len(result[p].value.list) = CountValid(result[p].value.page, ValidBlock)

\* The request before the last one of the call was the GET of url.
PrecededByGet(tr, url) == Len(tr) >= 2 /\ tr[Len(tr) - 1] = <<"GET", url>>

\* C8: every state-changing POST of set_sim_setting and set_call_forwarding_rule
\* carries a non-empty token, the one of the page GET that immediately preceded it
\* in the same call; a call whose token page had no token (or an empty one) has
\* raised the client error without a POST.
C8_TokenPrecondition ==
  \A p \in Procs :
    /\ net[p].kind = "req" /\ StateChanging(net[p]) =>
         /\ Truthy(net[p].data.token)
         /\ net[p].data.token = seen[p].token
         /\ PrecededByGet(trace[p], IF net[p].url = "einstellungen_sim_setdata.php"
                                    THEN "einstellungen_sim.php" ELSE net[p].url)
    /\ /\ call[p].op \in {"set_sim_setting", "set_call_forwarding_rule"}
       /\ pc[p] = "idle" /\ result[p].kind = "raise"
       /\ result[p].cause \notin {"status", "transport", "login_rejected"}
       /\ ~Truthy(seen[p].token)
       => /\ result[p].exc = ClientError
          /\ \A i \in 1..Len(trace[p]) : trace[p][i][1] = "GET" \/ trace[p][i][2] = "index.php"

\* C8 witness: a set_call_forwarding_rule call whose token page had an empty
\* token input has raised after its two GETs.
C8_Witness ==
  \E p \in Procs :
    /\ call[p].op = "set_call_forwarding_rule" /\ pc[p] = "idle"
    /\ result[p].kind = "raise" /\ result[p].exc = ClientError
    /\ seen[p].token = "" /\ start_authed[p] /\ Len(trace[p]) = 2

\* The payload carries the requested rule r.
CarriesRequested(pl, r) ==
  /\ Field(pl, r.condition \o "_akt") = r.target
  /\ Truthy(r.target_number) => Field(pl, r.condition \o "_rn") = r.target_number

\* C9: when set_call_forwarding_rule reports success, the payload it submitted
\* has the requested rule's target under {condition}_akt and, when the rule has
\* a target number, that number under {condition}_rn.
C9_RequestedRuleSubmitted ==
  [][\A p \in Procs :
       pc[p] = "cf_post" /\ result'[p].kind = "return" =>
         CarriesRequested(locals[p].payload, call[p].rule)]_vars

\* C9 witness: a forwarding of the busy condition to a number has been reported
\* as set.
C9_Witness ==
  \E p \in Procs :
    /\ call[p].op = "set_call_forwarding_rule" /\ result[p].kind = "return"
    /\ call[p].rule.condition = "wtel" /\ call[p].rule.target = "a"

\* Caller p has a state-changing POST in flight whose token is not the newest
\* the portal has issued.
StalePost(p) ==
  /\ net[p].kind = "req" /\ StateChanging(net[p])
  /\ net[p].data.token # Tok(issued)

\* C10: the client has no mutual exclusion around fetch-token/submit: a caller's
\* submission carries a token that is no longer the newest exactly through a race,
\* the newest token having been issued to the other caller after its own fetch.
C10_StaleTokenByRace ==
  \A p \in Procs :
    StalePost(p) =>
      \E q \in Procs \ {p} :
        /\ issued_to = q
        /\ call[q].op \in {"set_sim_setting", "set_call_forwarding_rule"}

\* C10 witness: both callers are inside a mutating operation, the second has
\* fetched its token after the first, and the first's submission is in flight
\* with the older token.
C10_Witness ==
  \E p \in Procs : \E q \in Procs \ {p} :
    /\ StalePost(p) /\ issued_to = q
    /\ pc[q] \in {"sim_post", "cf_post"} /\ net[q].kind = "req"
    /\ net[q].data.token = Tok(issued)

\* The state-changing POSTs among the requests tr.
Submissions(tr) ==
  {i \in 1..Len(tr) : StateChanging([method |-> tr[i][1], url |-> tr[i][2]])}

\* C11: no retries: a caller that reads a failed response (transport error or
\* HTTP status failure, the login warm-up GET included) ends its call by raising,
\* without a further request; and a call submits its state-changing POST at most once.
C11_NoRetries ==
  [][\A p \in Procs :
       /\ net[p].kind = "resp" /\ net[p].outcome # "ok" /\ pc'[p] # pc[p] =>
            /\ pc'[p] = "idle" /\ result'[p].kind = "raise"
            /\ trace'[p] = trace[p]
       /\ Cardinality(Submissions(trace'[p])) <= 1]_vars

\* get_account_usage has returned to caller p.
UsageReturned(p) == call[p].op = "get_account_usage" /\ result[p].kind = "return"

QuotaFields == {"minutes", "sms", "data_domestic", "data_eu", "data_carried_over"}

\* The quotas that are set on a package.
QuotasOf(pkg) == {pkg[f] : f \in {g \in QuotaFields : pkg[g] # NoQuota}}

PackagesReturned(p) ==
  {result[p].value.packages[i] : i \in 1..Len(result[p].value.packages)}

\* C12: every UnitQuota of a returned package that is not unlimited has finite
\* used and total, and remaining == total - used.
C12_QuotaInvariant ==
  \A p \in Procs :
    UsageReturned(p) =>
      \A pkg \in PackagesReturned(p) : \A q \in QuotasOf(pkg) :
        ~q.unlimited =>
          /\ ~q.total.inf /\ ~q.used.inf
          /\ q.remaining = FloatSub(q.total, q.used)

\* C13: every package get_account_usage returns has a quota from a usage bar:
\* minutes/SMS or domestic data.
C13_PackageHasQuota ==
  \A p \in Procs :
    UsageReturned(p) =>
      \A pkg \in PackagesReturned(p) :
        pkg.minutes # NoQuota \/ pkg.sms # NoQuota \/ pkg.data_domestic # NoQuota

\* The bar text matches the pattern: the label is "Verbraucht:" in any case, and
\* a word follows the total.
BarMatches(text) ==
  /\ text.label \in {"Verbraucht:", "VERBRAUCHT:"}
  /\ text.unit # "" \/ text.total = "10"

\* C18: _parse_usage_bar returns an infinite total for the word unlimited in any
\* letter case, and used 0, total 0 and an empty unit for a text that does not
\* match; a quota get_account_usage builds from a bar is unlimited exactly when its
\* total is infinite, and a card whose only bar does not match gets no quota (it
\* contributes no package).
C18_UsageBar ==
  \A p \in Procs :
    /\ call[p].op = "_parse_usage_bar" /\ result[p].kind = "return" =>
         LET text == call[p].text
             r    == result[p].value
         IN  /\ BarMatches(text) /\ text.total \in {"unlimited", "UNLIMITED"} => r.total = Inf
             /\ ~BarMatches(text) => r = [used |-> Float(0), total |-> Float(0), unit |-> ""]
             /\ BarMatches(text) => r.unit # "" /\ r.used = Float(100)
    /\ UsageReturned(p) =>
         LET cards == result[p].value.page.cards
         IN  /\ \A pkg \in PackagesReturned(p) :
                  \A f \in {"minutes", "sms", "data_domestic"} :
                    pkg[f] # NoQuota => (pkg[f].unlimited <=> pkg[f].total = Inf)
             /\ /\ Len(cards) = 1 /\ cards[1].title = "Tarif" /\ Len(cards[1].bars) = 1
                /\ ~BarMatches(cards[1].bars[1].text)
                => result[p].value.packages = <<>>
             /\ /\ Len(cards) = 1 /\ cards[1].title = "Tarif" /\ Len(cards[1].bars) = 1
                /\ BarMatches(cards[1].bars[1].text)
                /\ cards[1].bars[1].text.total \in {"unlimited", "UNLIMITED"}
                /\ cards[1].bars[1].heading = "Datenvolumen"
                => /\ Len(result[p].value.packages) = 1
                   /\ result[p].value.packages[1].data_domestic.unlimited

\* C18 witness: a card whose data bar reads "VERBRAUCHT: 1 (von UNLIMITED MB)"
\* has given a package with an unlimited domestic data quota.
C18_Witness ==
  \E p \in Procs :
    /\ UsageReturned(p) /\ Len(result[p].value.packages) = 1
    /\ Len(result[p].value.page.cards[1].bars) = 1
    /\ result[p].value.page.cards[1].bars[1].text.label = "VERBRAUCHT:"
    /\ result[p].value.page.cards[1].bars[1].text.total = "UNLIMITED"
    /\ result[p].value.packages[1].data_domestic # NoQuota
    /\ result[p].value.packages[1].data_domestic.unlimited
    /\ result[p].value.packages[1].data_domestic.total = Inf

\* The row has a usable link to the main document.
HasMainLink(row) == row.bill_href = "bill.pdf"

\* C14: list_bills returns one BillSummary per row that has a usable main link
\* and none for the other rows; every BillSummary has a bill_pdf_url, and has_egn
\* true exactly when its egn_pdf_url is set; a row with only a main link gives
\* has_egn = False and egn_pdf_url = None.
C14_BillList ==
  \A p \in Procs :
    call[p].op = "list_bills" /\ result[p].kind = "return" =>
      LET rows  == result[p].value.page
          bills == result[p].value.list
      IN  /\ Len(bills) = CountValid(rows, HasMainLink)
          /\ \A i \in 1..Len(bills) :
               /\ Truthy(bills[i].bill_pdf_url)
               /\ bills[i].has_egn <=> bills[i].egn_pdf_url # None
          /\ Len(rows) = 1 /\ HasMainLink(rows[1]) /\ rows[1].egn_href # "egn.pdf" =>
               ~bills[1].has_egn /\ bills[1].egn_pdf_url = None

\* C14 witness: of a row without a main link and a row with only a main link
\* (its second link has an empty href), the one summary returned has no itemized
\* record.
C14_Witness ==
  \E p \in Procs :
    /\ call[p].op = "list_bills" /\ result[p].kind = "return"
    /\ Len(result[p].value.page) = 2 /\ Len(result[p].value.list) = 1
    /\ ~HasMainLink(result[p].value.page[1])
    /\ result[p].value.page[2].egn_href = ""
    /\ ~result[p].value.list[1].has_egn

\* The bills of the list that have the number asked for.
Matching(bills, bill_number) == {i \in 1..Len(bills) : bills[i].bill_number = bill_number}

\* The first of them.
FirstMatch(bills, bill_number) ==
  bills[CHOOSE i \in Matching(bills, bill_number) :
          \A j \in Matching(bills, bill_number) : i <= j]

\* No request for a document: the call's requests are the login and the bill list.
NoDocumentGet(tr) == Urls(tr) \subseteq {"index.php", "rechnungen.php"}

\* The call of caller p has raised the client error.
RaisedClientError(p) ==
  pc[p] = "idle" /\ result[p].kind = "raise" /\ result[p].exc = ClientError

\* C15: get_bill raises the client error (a) for a document type other than
\* 'bill' or 'egn' in any letter case, with no request at all and the
\* authentication state as it was; (b) when no bill of the list has the number
\* asked for, and (c) when 'egn' is asked for a bill without an itemized record,
\* in both cases without a request for a document.
C15_GetBillErrors ==
  \A p \in Procs :
    call[p].op = "get_bill" =>
      /\ call[p].bill_type \notin {"bill", "egn", "BILL"} =>
           RaisedClientError(p) /\ trace[p] = <<>> /\ logged_in = start_authed[p]
      /\ seen[p].bills.read /\ Matching(seen[p].bills.list, call[p].bill_number) = {} =>
           RaisedClientError(p) /\ NoDocumentGet(trace[p])
      /\ /\ seen[p].bills.read /\ call[p].bill_type = "egn"
         /\ Matching(seen[p].bills.list, call[p].bill_number) # {}
         /\ ~FirstMatch(seen[p].bills.list, call[p].bill_number).has_egn
         => RaisedClientError(p) /\ NoDocumentGet(trace[p])

\* C15 witness: the itemized record was asked for a bill that is in the list
\* without one, and the call has raised after the GET of the list.
C15_Witness ==
  \E p \in Procs :
    /\ call[p].op = "get_bill" /\ call[p].bill_type = "egn" /\ start_authed[p]
    /\ seen[p].bills.read /\ Matching(seen[p].bills.list, call[p].bill_number) # {}
    /\ RaisedClientError(p) /\ trace[p] = <<<<"GET", "rechnungen.php">>>>

\* The model field a key of the payload names, if any.
FieldOfKey(key) ==
  CASE key = "roaming-barred" -> "roaming_barred"
    [] key = "data_barred" -> "data_barred"
    [] OTHER -> "none"

\* The items of data that name field f.
ItemsFor(data, f) == {i \in 1..Len(data) : FieldOfKey(data[i].key) = f}

\* The last of them.
LastFor(data, f) == data[CHOOSE i \in ItemsFor(data, f) : \A j \in ItemsFor(data, f) : j <= i]

\* C16: get_sim_settings raises the client error on a payload whose status is
\* not "OK"; otherwise the SimSettings it returns has a field set exactly for the
\* items whose key, with '-' for '_', names a field of the model, with the value
\* of the (last such) item, and every other field unset.
C16_SimSettings ==
  \A p \in Procs :
    call[p].op = "get_sim_settings" =>
      /\ result[p].kind = "raise" /\ result[p].cause = "app" =>
           result[p].exc = ClientError /\ result[p].msg.status # "OK"
      /\ result[p].kind = "return" =>
           LET data     == result[p].value.page.data
               settings == result[p].value.settings
           IN  /\ result[p].value.page.status = "OK"
               /\ DOMAIN settings = {f \in {"roaming_barred", "data_barred"} :
                                       ItemsFor(data, f) # {}}
               /\ \A f \in DOMAIN settings :
                    settings[f] = (LastFor(data, f).has_value /\ LastFor(data, f).value)

\* C16 witness: the payload {status OK, data [tariff-name, roaming-barred = true]}
\* has given roaming_barred = True and nothing else.
C16_Witness ==
  \E p \in Procs :
    /\ call[p].op = "get_sim_settings" /\ result[p].kind = "return"
    /\ Len(result[p].value.page.data) = 2
    /\ result[p].value.page.data[1].key = "tariff-name"
    /\ result[p].value.page.data[2] = [key |-> "roaming-barred", has_value |-> TRUE, value |-> TRUE]
    /\ DOMAIN result[p].value.settings = {"roaming_barred"}
    /\ result[p].value.settings["roaming_barred"]

\* The text starts with +43.
HasCountryCode(text) ==
  Len(text) >= 3 /\ text[1] = "+" /\ text[2] = "4" /\ text[3] = "3"

\* C17: _normalize_phone_number returns the empty string or a string that starts
\* with +43, and returns a string it has returned unchanged.
C17_NormalizeIdempotent ==
  \A p \in Procs :
    call[p].op = "_normalize_phone_number" /\ result[p].kind = "return" =>
      /\ result[p].value = <<>> \/ HasCountryCode(result[p].value)
      /\ call[p].again => result[p].value = call[p].number_str

\* C17 witness: "0043" was normalized to "+43043", and that was normalized again.
C17_Witness ==
  \E p \in Procs :
    /\ call[p].op = "_normalize_phone_number" /\ call[p].again
    /\ result[p].kind = "return" /\ result[p].value = <<"+", "4", "3", "0", "4", "3">>

\* The no-answer rule that is applied: the caller's, or the one parsed.
AppliedNoAnswerRule(p) ==
  IF call[p].rule.condition = "nann" THEN call[p].rule
  ELSE locals[p].current_settings.rules[2]

\* C19: every payload set_call_forwarding_rule submits has the field nann_sek,
\* with the delay of the no-answer rule that is applied, and no delay field of
\* another condition.
C19_DelayAlwaysSubmitted ==
  \A p \in Procs :
    FormPostInFlight(p) =>
      /\ "nann_sek" \in DOMAIN net[p].data
      /\ AppliedNoAnswerRule(p).delay_seconds # NoneInt =>
           Field(net[p].data, "nann_sek") = ToString(AppliedNoAnswerRule(p).delay_seconds)
      /\ \A c \in {"alle", "wtel", "nerr"} : (c \o "_sek") \notin DOMAIN net[p].data

\* C20: in list_call_history, a block with a timestamp and no (or an empty)
\* duration/cost field gives an entry with duration "0:00:00" and cost 0; a field
\* "0:02:12 / 0,10" gives duration "0:02:12" and cost 0.10.
C20_DurationAndCost ==
  \A p \in Procs :
    call[p].op = "list_call_history" /\ result[p].kind = "return" =>
      LET page == result[p].value.page
          list == result[p].value.list
      IN  Len(page) = 1 /\ ValidBlock(page[1]) =>
            /\ Len(list) = 1
            /\ ~Truthy(page[1].dauer_kosten) =>
                 list[1].duration = "0:00:00" /\ list[1].cost = 0
            /\ page[1].dauer_kosten = "0:02:12 / 0,10" =>
                 list[1].duration = "0:02:12" /\ list[1].cost = 10

\* C21: set_sim_setting reports success only when the body of the POST response
\* is the literal success marker OK, any other body raising the client error;
\* and the POST it submits carries the setting key in hyphen-separated form and
\* the value t for enabled, f for disabled.
C21_SuccessOnlyOnMarker ==
  \A p \in Procs :
    call[p].op = "set_sim_setting" =>
      /\ pc[p] = "idle" /\ result[p].kind = "return" => result[p].value.page = "OK"
      /\ pc[p] = "sim_post" /\ net[p].kind = "req" =>
           /\ net[p].data.key \in {"roaming-barred", "data-barred"}
           /\ call[p].setting_name = "roaming_barred" => net[p].data.key = "roaming-barred"
           /\ net[p].data.value = (IF call[p].enabled THEN "t" ELSE "f")

\* Both callers have had set_call_forwarding_rule report success, for two
\* different conditions.
BothEdited(p, q) ==
  /\ call[p].op = "set_call_forwarding_rule" /\ call[q].op = "set_call_forwarding_rule"
  /\ call[p].rule.condition # call[q].rule.condition
  /\ pc[p] = "idle" /\ result[p].kind = "return"
  /\ pc[q] = "idle" /\ result[q].kind = "return"

\* C22: no lost update: when two set_call_forwarding_rule calls for two different
\* conditions were in flight together on the one client and both have returned
\* success, the payload submitted last contains both requested rules.
C22_NoLostUpdate ==
  \A p \in Procs : \A q \in Procs \ {p} :
    BothEdited(p, q) =>
      CarriesRequested(posted, call[p].rule) /\ CarriesRequested(posted, call[q].rule)

====
